---- MODULE Spec2Model ----
(***************************************************************************)
(* Model of streamlit_rag_hist.py: the prompt builder (build_prompt) and   *)
(* the per-session state (st.session_state) driven by the two button       *)
(* handlers of the script, "Upload Data And Start Chatting" and            *)
(* "Get answer".  Text is a sequence of one-character strings, so that     *)
(* strip, join and concatenation are computed character by character.      *)
(***************************************************************************)
EXTENDS Integers, Sequences, FiniteSets, TLC

(* ------------------------------ bounds --------------------------------- *)

\* Longest conversation history the model lets a session accumulate.
MaxHist == 2

(* --------------------------- text helpers ------------------------------ *)

\* Python's None for string-valued session fields and locals.
None == "None"

\* None for a text-valued local (prompt, question, st.write argument): a
\* one-element sequence whose element is no character.
NoText == << "None" >>

\* What st.write(response) puts on the page when the response has neither
\* payload field: the stringified response object, not an answer text.
RawResponse == << "<response>" >>

\* str.strip() removes these from both ends (the characters of the model's
\* alphabet that str.isspace() accepts).
Whitespace == { " ", "\n" }

RECURSIVE lstrip(_)
lstrip(s) ==
  IF s = << >> THEN << >>
  ELSE IF Head(s) \in Whitespace THEN lstrip(Tail(s)) ELSE s

RECURSIVE rstrip(_)
rstrip(s) ==
  IF s = << >> THEN << >>
  ELSE IF s[Len(s)] \in Whitespace THEN rstrip(SubSeq(s, 1, Len(s) - 1)) ELSE s

strip(s) == rstrip(lstrip(s))

\* sep.join(lines)
RECURSIVE join(_, _)
join(sep, lines) ==
  IF lines = << >> THEN << >>
  ELSE IF Len(lines) = 1 THEN lines[1]
  ELSE lines[1] \o sep \o join(sep, Tail(lines))

(* ---------------------------- build_prompt ----------------------------- *)

Preamble ==
  << "T", "h", "e", "r", "e", " ", "a", "r", "e", " ", "2", " ",
     "s", "e", "c", "t", "i", "o", "n", "s", " ", "i", "n", " ",
     "t", "h", "i", "s", ".", " ", "P", "r", "e", "v", "i", "o",
     "u", "s", "l", "y", " ", "a", "s", "k", "e", "d", " ", "a",
     "n", "d", " ", "c", "u", "r", "r", "e", "n", "t", "l", "y",
     " ", "a", "s", "k", "i", "n", "g", ".", " ", "W", "h", "i",
     "l", "e", " ", "a", "n", "s", "w", "e", "r", "i", "n", "g",
     " ", "y", "o", "u", " ", "n", "e", "e", "d", " ", "t", "o",
     " ", "c", "h", "e", "c", "k", " ", "t", "h", "e", " ", "p",
     "r", "e", "v", "i", "o", "u", "s", "l", "y", " ", "a", "s",
     "k", "e", "d", " ", "t", "h", "e", "n", " ", "a", "n", "s",
     "w", "e", "r", " ", "t", "h", "e", " ", "q", "u", "e", "r",
     "y", " ", "t", "h", "a", "t", " ", "i", "s", " ", "p", "r",
     "e", "s", "e", "n", "t", " ", "i", "n", " ", "t", "h", "e",
     " ", "c", "u", "r", "r", "e", "n", "t", "l", "y", " ", "a",
     "s", "k", "i", "n", "g", " ", "s", "e", "c", "t", "i", "o",
     "n", ".", "\n" >>

PREVIOUSLY_ASKED ==
  << "P", "R", "E", "V", "I", "O", "U", "S", "L", "Y", "_", "A", "S", "K", "E", "D", ":" >>

CURRENTLY_ASKING ==
  << "C", "U", "R", "R", "E", "N", "T", "L", "Y", "_", "A", "S", "K", "I", "N", "G", ":" >>

NL == << "\n" >>

\* "if q or a": the exchange is emitted when either stripped field is non-empty.
KeepItemAnd(q, a) == q # << >> /\ a # << >>
KeepItem(q, a) == q # << >> \/ a # << >>

\* f"Q: {q}\nA: {a}"
Block(q, a) == << "Q", ":", " " >> \o q \o NL \o << "A", ":", " " >> \o a

\* The loop over history that fills prev_lines.
RECURSIVE prev_lines(_)
prev_lines(history) ==
  IF history = << >> THEN << >>
  ELSE LET q == strip(Head(history).question)
           a == strip(Head(history).answer)
       IN  (IF KeepItem(q, a) THEN << Block(q, a) >> ELSE << >>)
             \o prev_lines(Tail(history))

JoinBlank(lines) == join(NL \o NL, lines)
\* "\\n".join(prev_lines)
previously(lines) == join(NL, lines)

build_prompt(history, current_question) ==
  Preamble
    \o PREVIOUSLY_ASKED \o NL \o NL
    \o previously(prev_lines(history)) \o NL \o NL
    \o CURRENTLY_ASKING \o NL
    \o current_question

(* ------------------------- program constants --------------------------- *)

poll_seconds == 2
max_wait == 300

(* ------------------------------ inputs ---------------------------------- *)

\* What the user can have typed in the API key box: nothing, or a key.
ApiKeyInputs == { "", "k1" }

\* What the file uploader holds: nothing, or one file.
Files == { "a.txt", "b.pdf" }
FileInputs == { None } \cup Files

\* What the question text area can hold: empty, blank, and two questions.
QuestionInputs == { << >>, << " " >>, << "x" >>, << " ", "z" >> }

\* Answer texts the inference service can return (the empty text included).
Answers == { << >>, << "y" >> }

\* A generate_content response: its text and output attributes, each absent
\* (NoText) or an answer text.
Responses == [ text : Answers \cup { NoText }, output : Answers \cup { NoText } ]

\* Names the indexing service can give a newly created store.
StoreNames == { "s1", "s2" }

\* genai.Client(api_key=...)
Client(k) == "Client:" \o k

(* ------------------------------- state ---------------------------------- *)

VARIABLES
  genai_ok,                \* the google.genai import succeeded (genai, types not None)
  api_key,                 \* value of the API key box in the current run
  uploaded_file,           \* value of the file uploader in the current run
  question,                \* value of the question text area read by the current run
  clicked,                 \* the button that triggered the current run
  client,                  \* st.session_state['client']
  file_search_store_name,  \* st.session_state['file_search_store_name']
  uploaded_filename,       \* st.session_state['uploaded_filename']
  file_search_ready,       \* st.session_state['file_search_ready']
  conversation_history,    \* st.session_state['conversation_history']
  pc,                      \* position of the script: idle, poll, after_poll
  operation_done,          \* getattr(operation, 'done', False)
  waited,                  \* the poll loop's accumulated wait
  checks,                  \* number of client.operations.get calls of the current run
  svc_failed,              \* the external call that raised in the current run
  svc_calls,               \* the external calls the current run has made
  shown,                   \* the status element the current run put on the page
  written,                 \* the argument of st.write in the current run
  prompt                   \* the prompt the current run passed to generate_content

session == << client, file_search_store_name, uploaded_filename,
              file_search_ready, conversation_history >>

vars == << genai_ok, api_key, uploaded_file, question, clicked, client,
           file_search_store_name, uploaded_filename, file_search_ready,
           conversation_history, pc, operation_done, waited, checks,
           svc_failed, svc_calls, shown, written, prompt >>

\* Session state initialization, before any button is clicked.
Init ==
  /\ genai_ok \in BOOLEAN
  /\ api_key = ""
  /\ uploaded_file = None
  /\ question = NoText
  /\ clicked = "none"
  /\ client = None
  /\ file_search_store_name = None
  /\ uploaded_filename = None
  /\ file_search_ready = FALSE
  /\ conversation_history = << >>
  /\ pc = "idle"
  /\ operation_done = FALSE
  /\ waited = 0
  /\ checks = 0
  /\ svc_failed = "none"
  /\ svc_calls = { }
  /\ shown = "none"
  /\ written = NoText
  /\ prompt = NoText

(* ------------------- "Upload Data And Start Chatting" ------------------- *)

\* A run started by the upload button: the widgets' values, and the locals
\* of the chat branch, which this run does not execute.
UploadRun(k, f) ==
  /\ pc = "idle"
  /\ clicked' = "upload"
  /\ api_key' = k
  /\ uploaded_file' = f
  /\ question' = NoText
  /\ written' = NoText
  /\ prompt' = NoText
  /\ UNCHANGED genai_ok

\* The run never reaches the poll loop.
NoPoll ==
  /\ operation_done' = FALSE
  /\ waited' = 0
  /\ checks' = 0

\* if not api_key: st.error(...)
UploadNoKey ==
  \E f \in FileInputs :
    /\ UploadRun("", f)
    /\ NoPoll
    /\ pc' = "idle"
    /\ shown' = "error"
    /\ svc_failed' = "none"
    /\ svc_calls' = { }
    /\ UNCHANGED session

\* elif not uploaded_file: st.error(...)
UploadNoFile ==
  \E k \in ApiKeyInputs \ { "" } :
    /\ UploadRun(k, None)
    /\ NoPoll
    /\ pc' = "idle"
    /\ shown' = "error"
    /\ svc_failed' = "none"
    /\ svc_calls' = { }
    /\ UNCHANGED session

\* if genai is None or types is None: st.error(...)
UploadNoLibrary ==
  \E k \in ApiKeyInputs \ { "" }, f \in Files :
    /\ ~genai_ok
    /\ UploadRun(k, f)
    /\ NoPoll
    /\ pc' = "idle"
    /\ shown' = "error"
    /\ svc_failed' = "none"
    /\ svc_calls' = { }
    /\ UNCHANGED session

\* genai.Client raises: st.error, client = None, nothing else runs.
UploadClientFails ==
  \E k \in ApiKeyInputs \ { "" }, f \in Files :
    /\ genai_ok
    /\ UploadRun(k, f)
    /\ NoPoll
    /\ pc' = "idle"
    /\ shown' = "error"
    /\ svc_failed' = "client"
    /\ svc_calls' = { "Client" }
    /\ UNCHANGED session

\* The client is stored in the session, then file_search_stores.create raises
\* and the outer except shows the exception.
UploadStoreFails ==
  \E k \in ApiKeyInputs \ { "" }, f \in Files :
    /\ genai_ok
    /\ UploadRun(k, f)
    /\ NoPoll
    /\ client' = Client(k)
    /\ pc' = "idle"
    /\ shown' = "exception"
    /\ svc_failed' = "store"
    /\ svc_calls' = { "Client", "create" }
    /\ UNCHANGED << file_search_store_name, uploaded_filename,
                    file_search_ready, conversation_history >>

\* The client, the store name and the file name are stored in the session,
\* then writing the temporary file or upload_to_file_search_store raises and
\* the outer except shows the exception.
UploadImportFails ==
  \E k \in ApiKeyInputs \ { "" }, f \in Files, s \in StoreNames,
     cause \in { "tmpfile", "import" } :
    /\ genai_ok
    /\ UploadRun(k, f)
    /\ NoPoll
    /\ client' = Client(k)
    /\ file_search_store_name' = s
    /\ uploaded_filename' = f
    /\ pc' = "idle"
    /\ shown' = "exception"
    /\ svc_failed' = cause
    /\ svc_calls' = IF cause = "import" THEN { "Client", "create", "upload" }
                                        ELSE { "Client", "create" }
    /\ UNCHANGED << file_search_ready, conversation_history >>

\* upload_to_file_search_store returns an operation, done or not; the run
\* enters the poll loop with waited = 0.
UploadImportStarted ==
  \E k \in ApiKeyInputs \ { "" }, f \in Files, s \in StoreNames, d \in BOOLEAN :
    /\ genai_ok
    /\ UploadRun(k, f)
    /\ client' = Client(k)
    /\ file_search_store_name' = s
    /\ uploaded_filename' = f
    /\ operation_done' = d
    /\ waited' = 0
    /\ checks' = 0
    /\ pc' = "poll"
    /\ shown' = "info"
    /\ svc_failed' = "none"
    /\ svc_calls' = { "Client", "create", "upload" }
    /\ UNCHANGED << file_search_ready, conversation_history >>

\* while not getattr(operation, 'done', False) and waited < max_wait
PollContinueNoBudget(done, w) == ~done
PollContinue(done, w) == ~done /\ w < max_wait

\* The loop without the inner try/except: a raise of operations.get reaches
\* the outer except clause, which shows the exception.
PollCheckPropagates ==
  /\ pc = "poll"
  /\ ~operation_done /\ waited < max_wait
  /\ waited' = waited + poll_seconds
  /\ checks' = checks + 1
  /\ svc_calls' = svc_calls \cup { "operations.get" }
  /\ \E r \in { "done", "pending", "raise" } :
       IF r = "raise"
       THEN /\ svc_failed' = "poll"
            /\ pc' = "idle"
            /\ shown' = "exception"
            /\ UNCHANGED operation_done
       ELSE /\ operation_done' = (r = "done")
            /\ UNCHANGED << svc_failed, pc, shown >>
  /\ UNCHANGED << genai_ok, api_key, uploaded_file, question, clicked,
                  session, written, prompt >>

\* One iteration of the loop: sleep, waited += poll_seconds, then
\* client.operations.get, which returns the operation (done or pending) or
\* raises, and a raise breaks out of the loop with the operation unchanged.
PollCheck ==
  /\ pc = "poll"
  /\ PollContinue(operation_done, waited)
  /\ waited' = waited + poll_seconds
  /\ checks' = checks + 1
  /\ svc_calls' = svc_calls \cup { "operations.get" }
  /\ \E r \in { "done", "pending", "raise" } :
       IF r = "raise"
       THEN /\ svc_failed' = "poll"
            /\ pc' = "after_poll"
            /\ UNCHANGED operation_done
       ELSE /\ operation_done' = (r = "done")
            /\ UNCHANGED << svc_failed, pc >>
  /\ UNCHANGED << genai_ok, api_key, uploaded_file, question, clicked,
                  session, shown, written, prompt >>

\* The loop condition is false: the loop ends.
PollExit ==
  /\ pc = "poll"
  /\ ~PollContinue(operation_done, waited)
  /\ pc' = "after_poll"
  /\ UNCHANGED << genai_ok, api_key, uploaded_file, question, clicked,
                  session, operation_done, waited, checks, svc_failed,
                  svc_calls, shown, written, prompt >>

\* The branches after the loop: both set file_search_ready, the done branch
\* also resets the conversation history.
ReadyAfterImportDoneOnly(done) == done
ReadyAfterImport(done) == TRUE

HistoryAfterImportAlwaysReset(done, history) == << >>
HistoryAfterImport(done, history) == IF done THEN << >> ELSE history

ShownAfterImport(done) == IF done THEN "success" ELSE "warning"

UploadFinish ==
  /\ pc = "after_poll"
  /\ shown' = ShownAfterImport(operation_done)
  /\ file_search_ready' = ReadyAfterImport(operation_done)
  /\ conversation_history' = HistoryAfterImport(operation_done, conversation_history)
  /\ pc' = "idle"
  /\ UNCHANGED << genai_ok, api_key, uploaded_file, question, clicked,
                  client, file_search_store_name, uploaded_filename,
                  operation_done, waited, checks, svc_failed, svc_calls,
                  written, prompt >>

(* ----------------------------- "Get answer" ----------------------------- *)

\* A run started by the ask button, which the page shows only when
\* file_search_ready is set; the run does not execute the upload branch.
AskRun(k, q) ==
  /\ pc = "idle"
  /\ file_search_ready
  /\ clicked' = "ask"
  /\ api_key' = k
  /\ question' = q
  /\ NoPoll
  /\ UNCHANGED << genai_ok, uploaded_file >>

\* The three checks before the try block, each ending in st.error.
AskMissingSkipsBlank(k, q) ==
  \/ k = "" \/ client = None
  \/ file_search_store_name = None
AskMissing(k, q) ==
  \/ k = "" \/ client = None
  \/ file_search_store_name = None
  \/ q = << >> \/ strip(q) = << >>

AskRejected ==
  \E k \in ApiKeyInputs, q \in QuestionInputs :
    /\ AskRun(k, q)
    /\ AskMissing(k, q)
    /\ pc' = "idle"
    /\ shown' = "error"
    /\ written' = NoText
    /\ prompt' = NoText
    /\ svc_failed' = "none"
    /\ svc_calls' = { }
    /\ UNCHANGED session

\* The session history after generate_content raised: the except clause
\* shows the exception and touches nothing.
HistoryAfterFailureRecords(history, q) ==
  IF Len(history) < MaxHist
  THEN Append(history, [ question |-> q, answer |-> << >> ])
  ELSE history
HistoryAfterFailure(history, q) == history

\* generate_content raises: st.exception.
AskFails ==
  \E k \in ApiKeyInputs, q \in QuestionInputs :
    /\ AskRun(k, q)
    /\ ~AskMissing(k, q)
    /\ prompt' = build_prompt(conversation_history, q)
    /\ pc' = "idle"
    /\ shown' = "exception"
    /\ written' = NoText
    /\ svc_failed' = "generate"
    /\ svc_calls' = { "generate_content" }
    /\ conversation_history' = HistoryAfterFailure(conversation_history, q)
    /\ UNCHANGED << client, file_search_store_name, uploaded_filename,
                    file_search_ready >>

\* getattr(response, 'text', None), then getattr(response, 'output', None)
answer_text(response) ==
  IF response.text # NoText THEN response.text ELSE response.output

\* The session history after a response: appended to only in the branch
\* that displays an answer text.
HistoryAfterResponseAlwaysAppends(history, q, a) ==
  Append(history, [ question |-> q, answer |-> IF a = NoText THEN << >> ELSE a ])
HistoryAfterResponse(history, q, a) ==
  IF a = NoText THEN history
  ELSE Append(history, [ question |-> q, answer |-> a ])

\* generate_content returns: the answer text is written and the exchange
\* appended, or, with neither payload field, the raw response is written.
AskResponds ==
  \E k \in ApiKeyInputs, q \in QuestionInputs, response \in Responses :
    /\ AskRun(k, q)
    /\ ~AskMissing(k, q)
    /\ answer_text(response) # NoText => Len(conversation_history) < MaxHist
    /\ prompt' = build_prompt(conversation_history, q)
    /\ pc' = "idle"
    /\ svc_failed' = "none"
    /\ svc_calls' = { "generate_content" }
    /\ shown' = IF answer_text(response) = NoText THEN "raw" ELSE "answer"
    /\ written' = IF answer_text(response) = NoText THEN RawResponse
                                                    ELSE answer_text(response)
    /\ conversation_history' =
         HistoryAfterResponse(conversation_history, q, answer_text(response))
    /\ UNCHANGED << client, file_search_store_name, uploaded_filename,
                    file_search_ready >>

(* --------------------------- specifications ----------------------------- *)

Next ==
  \/ UploadNoKey
  \/ UploadNoFile
  \/ UploadNoLibrary
  \/ UploadClientFails
  \/ UploadStoreFails
  \/ UploadImportFails
  \/ UploadImportStarted
  \/ PollCheck
  \/ PollExit
  \/ UploadFinish
  \/ AskRejected
  \/ AskFails
  \/ AskResponds

Spec == Init /\ [][Next]_vars

\* A run of the script executes to its end: the poll loop and the branch
\* after it are steps of one synchronous handler.
FairSpec == Spec /\ WF_vars(PollCheck \/ PollExit \/ UploadFinish)

(* ------------------ build_prompt on arbitrary histories ----------------- *)

\* Question and answer texts of a history handed to build_prompt: empty,
\* blank, padded, and multi-line ones.
PQuestionTexts == { << >>, << " " >>, << " ", "q" >>, << "q", "\n", "\n", "r" >> }
PAnswerTexts == { << >>, << "\n" >>, << "a", " " >>, << "a", "\n", "b" >> }
PExchanges == [ question : PQuestionTexts, answer : PAnswerTexts ]
PHistories == UNION { [ 1 .. n -> PExchanges ] : n \in 0 .. MaxHist }
PCurrentQuestions == { << >>, << " ", "w", "\n" >>, << "w", "?" >> }

\* Any history and any current question, before build_prompt is called.
PromptInit ==
  /\ genai_ok = TRUE
  /\ api_key = ""
  /\ uploaded_file = None
  /\ question \in PCurrentQuestions
  /\ clicked = "none"
  /\ client = None
  /\ file_search_store_name = None
  /\ uploaded_filename = None
  /\ file_search_ready = FALSE
  /\ conversation_history \in PHistories
  /\ pc = "call"
  /\ operation_done = FALSE
  /\ waited = 0
  /\ checks = 0
  /\ svc_failed = "none"
  /\ svc_calls = { }
  /\ shown = "none"
  /\ written = NoText
  /\ prompt = NoText

\* prompt = build_prompt(history, current_question)
BuildPromptCall ==
  /\ pc = "call"
  /\ prompt' = build_prompt(conversation_history, question)
  /\ pc' = "returned"
  /\ UNCHANGED << genai_ok, api_key, uploaded_file, question, clicked,
                  session, operation_done, waited, checks, svc_failed,
                  svc_calls, shown, written >>

PromptSpec == PromptInit /\ [][BuildPromptCall]_vars

(* ------------------------- reading a prompt back ------------------------ *)

\* pat occurs in s at position i.
StartsAt(s, i, pat) ==
  /\ i >= 1
  /\ i + Len(pat) - 1 <= Len(s)
  /\ \A j \in 1 .. Len(pat) : s[i + j - 1] = pat[j]

\* Position of the first occurrence of pat in s, 0 when there is none.
Find(s, pat) ==
  LET hits == { i \in 1 .. Len(s) : StartsAt(s, i, pat) }
  IN  IF hits = { } THEN 0 ELSE CHOOSE i \in hits : \A j \in hits : i <= j

\* s without its leading and trailing whitespace, by positions.
Trimmed(s) ==
  LET solid == { i \in 1 .. Len(s) : s[i] \notin Whitespace }
  IN  IF solid = { } THEN << >>
      ELSE SubSeq(s, CHOOSE i \in solid : \A j \in solid : i <= j,
                     CHOOSE i \in solid : \A j \in solid : i >= j)

Blank(s) == \A i \in 1 .. Len(s) : s[i] \in Whitespace

QPrefix == << "Q", ":", " " >>
APrefix == << "\n", "A", ":", " " >>

\* The text between the PREVIOUSLY_ASKED: label at i1 and the
\* CURRENTLY_ASKING: label at i2, without the two newlines on either side.
SectionBetween(p, i1, i2) == SubSeq(p, i1 + Len(PREVIOUSLY_ASKED) + 2, i2 - 3)

Section(p) ==
  SectionBetween(p, Find(p, PREVIOUSLY_ASKED), Find(p, CURRENTLY_ASKING))

\* Positions of the section where a line begins with "Q: ".
BlockStarts(sec) ==
  { i \in 1 .. Len(sec) :
      StartsAt(sec, i, QPrefix) /\ (i = 1 \/ sec[i - 1] = "\n") }

\* The starts in increasing order.
RECURSIVE Ascending(_)
Ascending(S) ==
  IF S = { } THEN << >>
  ELSE LET m == CHOOSE i \in S : \A j \in S : i <= j
       IN  << m >> \o Ascending(S \ { m })

\* The blocks of the section that start at the positions st: each runs from
\* its "Q: " to the newline before the next block's "Q: ", or to the end.
BlocksFrom(sec, st) ==
  [ k \in 1 .. Len(st) |->
      SubSeq(sec, st[k], IF k < Len(st) THEN st[k + 1] - 2 ELSE Len(sec)) ]

ParsedBlocks(sec) == BlocksFrom(sec, Ascending(BlockStarts(sec)))

\* The question and the answer a block shows: the text between "Q: " and
\* the "\nA: " at position a, and the text after it.
PairAt(b, a) ==
  << SubSeq(b, Len(QPrefix) + 1, a - 1), SubSeq(b, a + Len(APrefix), Len(b)) >>

ParsedPair(b) == PairAt(b, Find(b, APrefix))

\* The exchanges of a history with a non-empty trimmed question or answer.
Emitted(history) ==
  SelectSeq(history,
            LAMBDA e : Trimmed(e.question) # << >> \/ Trimmed(e.answer) # << >>)

(* -------------------------------- claims -------------------------------- *)

\* A step that starts a run of the upload handler, and of the ask handler.
UploadStep == pc = "idle" /\ clicked' = "upload"
AskStep == pc = "idle" /\ clicked' = "ask"

\* The step after the poll loop that finds the operation done.
ImportObservedDone == pc = "after_poll" /\ operation_done

\* h2 keeps every exchange of h1, in place.
Extends(h1, h2) == Len(h2) >= Len(h1) /\ SubSeq(h2, 1, Len(h1)) = h1

\* C1: the conversation history is empty at session creation, and a step
\* makes it lose or change an exchange only when it is the step that observes
\* the import done; every other step (failed answer, rejected action, import
\* that timed out, poll failure, raised upload) keeps the existing exchanges.
C1_HistoryClearedOnlyOnImportDone ==
  /\ conversation_history = << >>
  /\ [][ \/ ImportObservedDone /\ conversation_history' = << >>
         \/ Extends(conversation_history, conversation_history') ]_vars

\* C1 witness: an import timed out on a session that holds exchanges, and
\* they are still there.
C1_Witness ==
  /\ pc = "idle" /\ clicked = "upload" /\ shown = "warning"
  /\ waited = max_wait
  /\ conversation_history # << >>

\* C2 (as claimed): after an upload run in which client construction, store
\* creation, the temporary file or the import call raised, the readiness flag
\* is false.
C2_FailedUploadLeavesNotReady ==
  (pc = "idle" /\ clicked = "upload"
     /\ svc_failed \in { "client", "store", "tmpfile", "import" })
  => ~file_search_ready

\* C3: every ask run that calls the inference service sends the prompt built
\* from the history as it stood before the run; when the call raises, the
\* history is unchanged, so the same question would build the same prompt
\* again; and a retry of the same question right after a failure sends it.
C3_FailedAskKeepsPromptContext ==
  [][ /\ (AskStep /\ svc_calls' # { })
        => prompt' = build_prompt(conversation_history, question')
      /\ (AskStep /\ svc_failed' = "generate")
        => /\ conversation_history' = conversation_history
           /\ build_prompt(conversation_history', question') = prompt'
      /\ (AskStep /\ svc_failed = "generate" /\ clicked = "ask"
            /\ svc_calls' # { } /\ question' = question)
        => prompt' = prompt ]_vars

\* C3 witness: an inference call failed on a session that holds exchanges.
C3_Witness ==
  /\ pc = "idle" /\ clicked = "ask" /\ svc_failed = "generate"
  /\ conversation_history # << >>

\* C4: an upload run whose import call returned and whose poll ended without
\* the operation done (budget exhausted, or a status check raised) ends with
\* the readiness flag set and the warning shown; a raised status check leaves
\* the operation not done and is not shown as an exception.
C4_UnfinishedImportIsOptimisticallyReady ==
  /\ (pc = "idle" /\ clicked = "upload" /\ "upload" \in svc_calls
        /\ svc_failed \in { "none", "poll" } /\ ~operation_done)
     => (file_search_ready /\ shown = "warning")
  /\ svc_failed = "poll" => ~operation_done
  /\ (pc = "idle" /\ svc_failed = "poll")
     => (file_search_ready /\ shown = "warning")

\* C4 witness: a status check raised and the run ended ready.
C4_Witness ==
  /\ pc = "idle" /\ clicked = "upload" /\ svc_failed = "poll"
  /\ checks > 1

\* C5: an upload run with no key or no file, and an ask run with no key, no
\* client, no store name or a blank question, shows an error, leaves the five
\* session fields as they were and calls no external service.
C5_MissingPreconditionChangesNothing ==
  [][ ( \/ UploadStep /\ (api_key' = "" \/ uploaded_file' = None)
        \/ AskStep /\ ( \/ api_key' = "" \/ client = None
                        \/ file_search_store_name = None
                        \/ Blank(question') ) )
      => /\ shown' = "error"
         /\ svc_calls' = { }
         /\ pc' = "idle"
         /\ UNCHANGED session ]_vars

\* C5 witness: a blank question was rejected on a session with a key and
\* with exchanges in its history.
C5_Witness ==
  /\ pc = "idle" /\ clicked = "ask" /\ shown = "error"
  /\ api_key # "" /\ question = << " " >>
  /\ conversation_history # << >>

\* The blocks read back are the given exchanges' trimmed texts, in order.
BlocksShow(blocks, kept) ==
  /\ Len(blocks) = Len(kept)
  /\ \A k \in 1 .. Len(kept) :
       ParsedPair(blocks[k])
         = << Trimmed(kept[k].question), Trimmed(kept[k].answer) >>

\* The prompt p, with its labels at i1 and i2, reads as: label, blank line,
\* the blocks of the exchanges kept, blank line, label, newline, question q.
PromptReadsAs(p, i1, i2, kept, q) ==
  /\ i1 > 0
  /\ i2 >= i1 + Len(PREVIOUSLY_ASKED) + 4
  /\ SubSeq(p, i1 + Len(PREVIOUSLY_ASKED), i1 + Len(PREVIOUSLY_ASKED) + 1)
       = NL \o NL
  /\ SubSeq(p, i2 - 2, i2 - 1) = NL \o NL
  /\ kept # << >> => StartsAt(p, i1 + Len(PREVIOUSLY_ASKED) + 2, QPrefix)
  /\ BlocksShow(ParsedBlocks(SectionBetween(p, i1, i2)), kept)
  /\ SubSeq(p, i2 + Len(CURRENTLY_ASKING), Len(p)) = NL \o q

\* C6: read back from the prompt, the section between the two labels holds
\* one Q:/A: block per exchange whose trimmed question or answer is
\* non-empty, with the trimmed texts, in history order, and none for the
\* others; CURRENTLY_ASKING: comes after the section and is followed by a
\* newline and the question as given.
C6_SectionHoldsEmittedBlocksInOrder ==
  pc = "returned" =>
    PromptReadsAs(prompt, Find(prompt, PREVIOUSLY_ASKED),
                  Find(prompt, CURRENTLY_ASKING),
                  Emitted(conversation_history), question)

\* C6 witness: build_prompt returned for a history that holds an exchange
\* blank on both sides and an exchange that is emitted.
C6_Witness ==
  /\ pc = "returned"
  /\ Len(conversation_history) >= 2
  /\ Emitted(conversation_history) # << >>
  /\ Len(Emitted(conversation_history)) < Len(conversation_history)

\* Before every block of the section but the first lie two newlines.
BlankLineBefore(sec) ==
  \A i \in BlockStarts(sec) :
    i > 1 => (i > 2 /\ sec[i - 1] = "\n" /\ sec[i - 2] = "\n")

\* Before every block of the section but the first lies one newline, and
\* the character before it is not a newline.
SingleNewlineBefore(sec) ==
  \A i \in BlockStarts(sec) :
    i > 1 => (i > 2 /\ sec[i - 1] = "\n" /\ sec[i - 2] # "\n")

\* C7 (as claimed): with two or more blocks, an empty line lies between a
\* block and the next: the two characters before the next "Q: " are newlines.
C7_BlankLineBetweenBlocks ==
  pc = "returned" => BlankLineBefore(Section(prompt))

\* C7 (amended): with two or more blocks, exactly one newline lies between a
\* block and the next: the character before the next "Q: " is a newline and
\* the one before that is not, so no empty line separates the blocks.
C7_SingleNewlineBetweenBlocks ==
  pc = "returned" => SingleNewlineBefore(Section(prompt))

\* C7 witness: build_prompt returned a prompt with two blocks.
C7_Witness ==
  /\ pc = "returned"
  /\ Cardinality(BlockStarts(Section(prompt))) >= 2

\* C8: the accumulated wait is the interval 2 times the number of status
\* checks, never above 300, with at most 150 checks; a status check is made
\* only inside the loop while the operation is not done, no check has raised
\* and the budget is not used up, and adds exactly 2 to the wait; and a run
\* that entered the loop reaches the end of the handler.
C8_PollLoopTerminates ==
  /\ [](waited = 2 * checks /\ waited <= 300 /\ checks <= 150)
  /\ [][ checks' = checks + 1
         => /\ pc = "poll" /\ ~operation_done /\ svc_failed # "poll"
            /\ waited < 300
            /\ waited' = waited + 2 ]_vars
  /\ [][ (pc = "poll" /\ (operation_done \/ svc_failed = "poll"))
         => checks' = checks ]_vars
  /\ (pc = "poll" ~> pc = "idle")

\* C8 witness: a run made the last status check the budget allows.
C8_Witness ==
  /\ pc = "idle" /\ clicked = "upload"
  /\ checks = 150 /\ waited = 300

\* C9: a step changes the history only by the reset of an import observed
\* done or by an ask run that displays an answer text, which appends exactly
\* the pair (question asked, answer displayed) at the end; an ask run that
\* displays an answer always appends it, and one whose response has neither
\* payload field writes the raw response and appends nothing.
C9_HistoryIsTheDisplayedExchanges ==
  [][ /\ conversation_history' # conversation_history
        => \/ ImportObservedDone /\ conversation_history' = << >>
           \/ /\ AskStep /\ shown' = "answer"
              /\ conversation_history'
                   = Append(conversation_history,
                            [ question |-> question', answer |-> written' ])
      /\ (AskStep /\ shown' = "answer")
        => conversation_history'
             = Append(conversation_history,
                      [ question |-> question', answer |-> written' ])
      /\ (AskStep /\ shown' = "raw")
        => /\ written' = RawResponse
           /\ conversation_history' = conversation_history ]_vars

\* C9 witness: a response with neither payload field was shown raw on a
\* session that holds exchanges.
C9_Witness ==
  /\ pc = "idle" /\ clicked = "ask" /\ shown = "raw"
  /\ written = RawResponse
  /\ conversation_history # << >>

\* C10: whenever the readiness flag is set, the client, the store name and
\* the file name are set; and no step clears the readiness flag.
C10_ReadyImpliesHandlesAndStaysReady ==
  /\ [](file_search_ready
          => /\ client # None
             /\ file_search_store_name # None
             /\ uploaded_filename # None)
  /\ [][ file_search_ready => file_search_ready' ]_vars

\* C10 witness: a session that was ready went through an upload run whose
\* import raised, and is still ready.
C10_Witness ==
  /\ pc = "idle" /\ clicked = "upload" /\ file_search_ready
  /\ svc_failed = "import"

====
